---- MODULE Spec2Model ----
(***************************************************************************)
(* A model of abel/tools/basis.py: get_bs_cached, the disk-backed cache of *)
(* basis matrices.  One call of get_bs_cached is one action; the state is  *)
(* the cache directory, the arguments of the last call, its outcome and    *)
(* what it did to the outside world (listing, loads, generator calls,      *)
(* saves).                                                                 *)
(*                                                                         *)
(* A file name is kept as the sequence of its "_"-separated pieces, so     *)
(* that "a_b_c.npy" is <<"a", "b", "c.npy">>: format() builds the pieces   *)
(* with ToString, split('_') reads them back.                              *)
(* A matrix is a sequence of rows, each row a sequence of entries.         *)
(***************************************************************************)
EXTENDS Integers, Sequences, FiniteSets, TLC

VARIABLES
    dir,     \* the cache directory: the set of its files
    before,  \* the cache directory as the last call found it
    call,    \* the arguments of the last call
    res,     \* the outcome of the last call
    obs,     \* what the last call did: listing, loads, generator calls, saves
    ncalls,  \* the number of calls so far
    procs    \* the processes that run one call step by step, each its position

vars == <<dir, before, call, res, obs, ncalls, procs>>

----------------------------------------------------------------------------
(* Bounds of the model *)

MaxSize == 2
MaxNbf == 2
MaxCalls == 2

Sizes == 1..MaxSize
Nbfs == 1..MaxNbf

----------------------------------------------------------------------------
(* Methods *)

Methods == {"linbasex", "onion_peeling", "three_point", "two_point"}

UnknownMethod == "nonexistent_method"

MethodArgs == Methods \cup {UnknownMethod}

\* method.split('_')
MethodTokens(m) ==
    CASE m = "linbasex" -> <<"linbasex">>
      [] m = "onion_peeling" -> <<"onion", "peeling">>
      [] m = "three_point" -> <<"three", "point">>
      [] m = "two_point" -> <<"two", "point">>
      [] OTHER -> <<"nonexistent", "method">>

----------------------------------------------------------------------------
(* Matrices *)

Min(a, b) == IF a < b THEN a ELSE b

Rows(D) == Len(D)

Cols(D) == IF Len(D) = 0 THEN 0 ELSE Len(D[1])

Shape(D) == <<Rows(D), Cols(D)>>

\* Trim with the column slice left out: D[:cols]
TrimRows(D, cols, nbf) == [i \in 1..Min(cols, Rows(D)) |-> D[i]]

\* D[:cols, :nbf]: numpy clamps a slice bound that exceeds the extent
Trim(D, cols, nbf) ==
    [i \in 1..Min(cols, Rows(D)) |-> SubSeq(D[i], 1, Min(nbf, Len(D[i])))]

----------------------------------------------------------------------------
(* Options of a request *)

OptionKeys == <<"legendre_orders", "proj_angles", "radial_step", "clip">>

NoOptions == [k \in {} |-> 0]

OneOption(key, value) == [k \in {key} |-> value]

\* a mapping that sets all four options; an angle is given in degrees, d for
\* d*pi/180 radians
FullOptions ==
    [legendre_orders |-> <<0, 2, 4>>, proj_angles |-> <<0, 45, 90, 135>>,
     radial_step |-> 2, clip |-> 1]

\* the option mappings the calls of the model draw from
OptionChoices ==
    {NoOptions, OneOption("radial_step", 2), OneOption("clip", 1), FullOptions}

\* the mappings that set any of the four options, each to a value other than
\* its default, the projection angles to one of two lists
OptionsWith(keys, angles) ==
    [k \in keys |->
        CASE k = "legendre_orders" -> <<0, 2, 4>>
          [] k = "proj_angles" -> angles
          [] k = "radial_step" -> 2
          [] OTHER -> 1]

AllOptionMaps ==
    {OptionsWith(keys, angles) :
        keys \in SUBSET {"legendre_orders", "proj_angles", "radial_step", "clip"},
        angles \in {<<0, 45, 90, 135>>, <<0, 90>>}}

OptionsOf(m) == IF m = "linbasex" THEN OptionChoices ELSE {NoOptions}

----------------------------------------------------------------------------
(* The name of the artifact of a request *)

RECURSIVE JoinStr(_)
\* ''.join(map(str, list))
JoinStr(list) ==
    IF list = <<>> THEN "" ELSE ToString(Head(list)) \o JoinStr(Tail(list))

RECURSIVE FractPi(_)
\* (np.array(proj_angles)*100/np.pi).astype(int); an angle of d degrees is
\* d*pi/180 radians, so angle*100/pi is d*100/180, truncated
FractPi(degs) ==
    IF degs = <<>> THEN <<>>
    ELSE <<(Head(degs) * 100) \div 180>> \o FractPi(Tail(degs))

\* DefaultSegment with the default of the comment of line 75 for the angles
DefaultSegmentStale(key) ==
    CASE key = "legendre_orders" -> "02"
      [] key = "proj_angles" -> "090"
      [] key = "radial_step" -> ToString(1)
      [] key = "clip" -> ToString(0)

DefaultSegment(key) ==
    CASE key = "legendre_orders" -> "02"
      [] key = "proj_angles" -> "050"
      [] key = "radial_step" -> ToString(1)
      [] key = "clip" -> ToString(0)

\* the piece "_{}".format(value) appends for one key
Segment(key, opts) ==
    IF key \in DOMAIN opts
    THEN CASE key = "legendre_orders" -> JoinStr(opts[key])
           [] key = "proj_angles" -> JoinStr(FractPi(opts[key]))
           [] OTHER -> ToString(opts[key])
    ELSE DefaultSegment(key)

\* Suffix with the keys visited in another order: clip before radial_step
SuffixClipFirst(method, opts) ==
    IF method = "linbasex"
    THEN <<Segment("legendre_orders", opts), Segment("proj_angles", opts),
           Segment("clip", opts), Segment("radial_step", opts)>>
    ELSE <<>>

Suffix(method, opts) ==
    IF method = "linbasex"
    THEN [k \in 1..Len(OptionKeys) |-> Segment(OptionKeys[k], opts)]
    ELSE <<>>

\* basis_name += ".npy": the extension joins the last piece
WithExt(pieces) ==
    [k \in 1..Len(pieces) |->
        IF k = Len(pieces) THEN pieces[k] \o ".npy" ELSE pieces[k]]

BasisName(method, cols, nbf, opts) ==
    WithExt(MethodTokens(method) \o <<"basis", ToString(cols), ToString(nbf)>>
            \o Suffix(method, opts))

----------------------------------------------------------------------------
(* The scan of the cache directory *)

\* fnmatch of method+'_basis*' against a file name
GlobMatch(name, method) ==
    LET k == Len(MethodTokens(method))
    IN  /\ Len(name) > k + 1
        /\ SubSeq(name, 1, k) = MethodTokens(method)
        /\ name[k + 1] = "basis"

\* the files of directory d that the pattern method+'_basis*' matches
Matching(d, method) == {f \in d : GlobMatch(f.name, method)}

\* glob.glob(path_to_basis_files) returns the matching files in the order the
\* directory lists them, which is arbitrary: every order of them is possible
Listings(files) ==
    {l \in [1..Cardinality(files) -> files] :
        \A i, j \in 1..Cardinality(files) : l[i] = l[j] => i = j}

IsInt(s) == \E n \in 0..9 : ToString(n) = s

\* int(s)
ParseInt(s) == CHOOSE n \in 0..9 : ToString(n) = s

\* bf.split('_')[-2]
SizeField(name) == name[Len(name) - 1]

RECURSIVE ScanSmallest(_, _)
\* Scan as a best-match search: the sufficient file of the smallest size field
ScanSmallest(files, cols) ==
    IF files = <<>> THEN [kind |-> "miss"]
    ELSE IF ~IsInt(SizeField(Head(files).name)) THEN [kind |-> "raise"]
    ELSE LET rest == ScanSmallest(Tail(files), cols)
             size == ParseInt(SizeField(Head(files).name))
         IN  IF rest.kind = "raise" THEN rest
             ELSE IF size < cols THEN rest
             ELSE IF rest.kind = "hit"
                     /\ ParseInt(SizeField(rest.file.name)) < size
                  THEN rest
             ELSE [kind |-> "hit", file |-> Head(files)]

RECURSIVE Scan(_, _)
\* the for loop over basis_files: the first file whose size field is
\* sufficient is loaded; int() of a size field that is no number raises
Scan(files, cols) ==
    IF files = <<>> THEN [kind |-> "miss"]
    ELSE IF ~IsInt(SizeField(Head(files).name)) THEN [kind |-> "raise"]
    ELSE IF ParseInt(SizeField(Head(files).name)) >= cols
         THEN [kind |-> "hit", file |-> Head(files)]
         ELSE Scan(Tail(files), cols)

----------------------------------------------------------------------------
(* The generators and the matrices the model starts from *)

\* abel.linbasex._bs_linbasex, abel.dasch._bs_onion_peeling, _bs_three_point,
\* _bs_two_point: a pure function of (cols, options) to a matrix of cols rows
\* and the generator's own column count; an entry records what it was
\* generated from and its position
NaturalCols(method, cols) == cols

Generate(method, cols, opts) ==
    [i \in 1..cols |->
        [j \in 1..NaturalCols(method, cols) |-> <<method, cols, opts, i, j>>]]

\* an r x c matrix that was not generated by any call of the model
Foreign(tag, r, c) ==
    [i \in 1..r |-> [j \in 1..c |-> <<tag, r, NoOptions, i, j>>]]

\* a file {method}_basis_{R}_{C}.npy holding an R x C matrix, present in the
\* directory before the first call
PreexistingFile(m, r, c) ==
    [name |-> WithExt(MethodTokens(m) \o <<"basis", ToString(r), ToString(c)>>),
     data |-> Foreign("preexisting", r, c),
     by |-> [method |-> m, cols |-> r, nbf |-> c, opts |-> NoOptions]]

\* cache directories that hold one file before the first call, the smallest
\* or the largest matrix of the model
InitialDirs ==
    {{PreexistingFile(m, 1, 1)} : m \in Methods}
    \cup {{PreexistingFile(m, MaxSize, MaxNbf)} : m \in Methods}

----------------------------------------------------------------------------
(* The memory slot: cached_basis *)

\* cached_basis=None
NoSlot == [given |-> FALSE, has |-> FALSE, basis |-> <<>>, method |-> ""]

\* cached_basis=(None, method)
EmptySlot(m) == [given |-> TRUE, has |-> FALSE, basis |-> <<>>, method |-> m]

\* cached_basis=(basis, method)
Slot(D, m) == [given |-> TRUE, has |-> TRUE, basis |-> D, method |-> m]

OtherMethod(m) == IF m = "two_point" THEN "three_point" ELSE "two_point"

SlotChoices(method) ==
    {NoSlot, EmptySlot(method), Slot(Foreign("held", MaxSize, MaxNbf), OtherMethod(method))}
    \cup {Slot(Foreign("held", r, r), method) : r \in Sizes}

\* SlotUsable with the comparison of the methods left out
SlotUsableAnyMethod(slot, method, cols) ==
    /\ slot.given
    /\ slot.has
    /\ Rows(slot.basis) >= cols

\* cached_basis is not None and cached_basis[0] is not None, and then
\* _basis.shape[0] >= cols and _method == method
SlotUsable(slot, method, cols) ==
    /\ slot.given
    /\ slot.has
    /\ Rows(slot.basis) >= cols
    /\ slot.method = method

----------------------------------------------------------------------------
(* Saving *)

\* Save that clears the directory before it writes
SaveAlone(d, file) == {file}

\* np.save(path_to_basis_file, D): a file of that name is replaced
Save(d, file) == {f \in d : f.name # file.name} \cup {file}

----------------------------------------------------------------------------
(* get_bs_cached *)

Quiet == [listed |-> FALSE, listing |-> <<>>, loaded |-> <<>>,
          generated |-> <<>>, saved |-> <<>>]

Return(path, D) == [kind |-> "return", path |-> path, val |-> D, err |-> "none"]

Raise(err) == [kind |-> "raise", path |-> "none", val |-> <<>>, err |-> err]

NoFile == [name |-> <<>>, data |-> <<>>,
           by |-> [method |-> "", cols |-> 0, nbf |-> 0, opts |-> NoOptions]]

Names(files) == [i \in 1..Len(files) |-> files[i].name]

\* UsesDir with the test left out: the directory is used even when None
UsesDirAlways(basis_dir) == TRUE

\* basis_dir is not None
UsesDir(basis_dir) == basis_dir

\* what one call does when glob.glob lists basis_files: its outcome, its
\* observable steps and the file it saves, if any
Outcome(basis_files, method, cols, nbf, basis_dir, cached_basis, basis_options) ==
    IF SlotUsable(cached_basis, method, cols)
    THEN [res |-> Return("memory", cached_basis.basis), obs |-> Quiet,
          save |-> FALSE, file |-> NoFile]
    ELSE IF method \notin Methods
    THEN [res |-> Raise("ValueError"), obs |-> Quiet,
          save |-> FALSE, file |-> NoFile]
    ELSE
    LET basis_name == BasisName(method, cols, nbf, basis_options)
        lists == UsesDir(basis_dir)
        saves == UsesDir(basis_dir)
        scan == IF lists THEN Scan(basis_files, cols) ELSE [kind |-> "miss"]
        seen == IF lists THEN Names(basis_files) ELSE <<>>
        D == Generate(method, cols, basis_options)
    IN  CASE scan.kind = "hit" ->
               [res |-> Return("disk", Trim(scan.file.data, cols, nbf)),
                obs |-> [Quiet EXCEPT !.listed = TRUE, !.listing = seen,
                                      !.loaded = <<scan.file.name>>],
                save |-> FALSE, file |-> NoFile]
          [] scan.kind = "raise" ->
               [res |-> Raise("ValueError"),
                obs |-> [Quiet EXCEPT !.listed = TRUE, !.listing = seen],
                save |-> FALSE, file |-> NoFile]
          [] OTHER ->
               [res |-> Return("generated", D),
                obs |-> [listed |-> lists, listing |-> seen,
                         loaded |-> <<>>,
                         generated |-> <<<<method, cols, basis_options>>>>,
                         saved |-> IF saves THEN <<basis_name>> ELSE <<>>],
                save |-> saves,
                file |-> [name |-> basis_name, data |-> D,
                          by |-> [method |-> method, cols |-> cols, nbf |-> nbf,
                                  opts |-> basis_options]]]

GetBsCached(method, cols, nbf, basis_dir, cached_basis, basis_options) ==
    /\ res.kind = "idle"
    /\ ncalls < MaxCalls
    /\ \E basis_files \in Listings(Matching(dir, method)) :
         LET out == Outcome(basis_files, method, cols, nbf, basis_dir,
                            cached_basis, basis_options)
         IN  /\ res' = out.res
             /\ obs' = out.obs
             /\ dir' = IF out.save THEN Save(dir, out.file) ELSE dir
    /\ ncalls' = ncalls + 1
    /\ before' = dir
    /\ call' = [method |-> method, cols |-> cols, nbf |-> nbf,
                basis_dir |-> basis_dir, cached_basis |-> cached_basis,
                basis_options |-> basis_options]
    /\ UNCHANGED procs

NoCall == [method |-> "", cols |-> 0, nbf |-> 0, basis_dir |-> FALSE,
           cached_basis |-> NoSlot, basis_options |-> NoOptions]

Idle == [kind |-> "idle", path |-> "none", val |-> <<>>, err |-> "none"]

\* the caller takes the outcome of the call; the directory stays
Resume ==
    /\ res.kind # "idle"
    /\ res' = Idle
    /\ call' = NoCall
    /\ obs' = Quiet
    /\ before' = dir
    /\ UNCHANGED <<dir, ncalls, procs>>

----------------------------------------------------------------------------
(* One call step by step, by processes that share the cache directory *)

Procs == {"p", "q"}

\* a process and what it holds: the files glob.glob listed, the matrix it
\* generated, its outcome, and whether the file it went to load was gone
Proc(pc) == [pc |-> pc, basis_files |-> <<>>, D |-> <<>>, res |-> Idle,
             lost |-> FALSE]

\* lines 102-103: the process lists the files of the method
ListDir(p) ==
    /\ procs[p].pc = "start"
    /\ \E basis_files \in Listings(Matching(dir, call.method)) :
         procs' = [procs EXCEPT ![p].pc = "listed",
                                ![p].basis_files = basis_files]
    /\ UNCHANGED <<dir, before, call, res, obs, ncalls>>

\* lines 104-110: the process scans the names it listed and loads the first
\* sufficient file as the directory holds it now; np.load of a file that is
\* gone raises, and nothing catches it
LoadOrMiss(p) ==
    /\ procs[p].pc = "listed"
    /\ LET scan == Scan(procs[p].basis_files, call.cols)
           now == {f \in dir : scan.kind = "hit" /\ f.name = scan.file.name}
       IN  procs' =
             CASE scan.kind = "raise" ->
                    [procs EXCEPT ![p].pc = "done",
                                  ![p].res = Raise("ValueError")]
               [] scan.kind = "hit" /\ now = {} ->
                    [procs EXCEPT ![p].pc = "done", ![p].lost = TRUE,
                                  ![p].res = Raise("IOError")]
               [] scan.kind = "hit" /\ now # {} ->
                    [procs EXCEPT ![p].pc = "done",
                                  ![p].res =
                                     Return("disk",
                                            Trim((CHOOSE f \in now : TRUE).data,
                                                 call.cols, call.nbf))]
               [] OTHER -> [procs EXCEPT ![p].pc = "generating"]
    /\ UNCHANGED <<dir, before, call, res, obs, ncalls>>

\* line 122: the process generates
GenerateStep(p) ==
    /\ procs[p].pc = "generating"
    /\ procs' = [procs EXCEPT ![p].pc = "saving",
                              ![p].D = Generate(call.method, call.cols,
                                                call.basis_options)]
    /\ UNCHANGED <<dir, before, call, res, obs, ncalls>>

\* lines 124-131: the process saves the whole file in one step and returns
SaveStep(p) ==
    /\ procs[p].pc = "saving"
    /\ dir' = Save(dir, [name |-> BasisName(call.method, call.cols, call.nbf,
                                            call.basis_options),
                         data |-> procs[p].D,
                         by |-> [method |-> call.method, cols |-> call.cols,
                                 nbf |-> call.nbf,
                                 opts |-> call.basis_options]])
    /\ procs' = [procs EXCEPT ![p].pc = "done",
                              ![p].res = Return("generated", procs[p].D)]
    /\ UNCHANGED <<before, call, res, obs, ncalls>>

\* something else removes a file of the directory
Unlink ==
    /\ \E f \in dir : dir' = dir \ {f}
    /\ UNCHANGED <<before, call, res, obs, ncalls, procs>>

----------------------------------------------------------------------------
(* The specifications *)

Start(dirs) ==
    /\ dir \in dirs
    /\ before = dir
    /\ call = NoCall
    /\ res = Idle
    /\ obs = Quiet
    /\ ncalls = 0
    /\ procs = [p \in Procs |-> Proc("off")]

\* calls without a usable memory slot, from an empty cache directory
Init == Start({{}})

Next ==
    \/ \E method \in MethodArgs, cols \in Sizes, nbf \in Nbfs, basis_dir \in BOOLEAN :
         \E basis_options \in OptionsOf(method) :
             GetBsCached(method, cols, nbf, basis_dir, NoSlot, basis_options)
    \/ Resume

Spec == Init /\ [][Next]_vars

\* calls without options, from a cache directory that holds a file already
InitSeeded == Start(InitialDirs)

NextSeeded ==
    \/ \E method \in MethodArgs, cols \in Sizes, nbf \in Nbfs, basis_dir \in BOOLEAN :
         GetBsCached(method, cols, nbf, basis_dir, NoSlot, NoOptions)
    \/ Resume

SpecSeeded == InitSeeded /\ [][NextSeeded]_vars

\* calls with a memory slot
NextSlot ==
    \/ \E method \in MethodArgs, cols \in Sizes, nbf \in Nbfs, basis_dir \in BOOLEAN :
         \E cached_basis \in SlotChoices(method) :
             GetBsCached(method, cols, nbf, basis_dir, cached_basis, NoOptions)
    \/ Resume

SpecSlot == Init /\ [][NextSlot]_vars

\* linbasex calls with every combination of options, nbf = cols
NextResolve ==
    \/ \E cols \in Sizes, basis_options \in AllOptionMaps :
         GetBsCached("linbasex", cols, cols, TRUE, NoSlot, basis_options)
    \/ Resume

SpecResolve == Init /\ [][NextResolve]_vars

\* two processes make the same call, with a cache directory and no slot, on a
\* directory that is empty or holds a file already
InitRace ==
    /\ dir \in {{}} \cup InitialDirs
    /\ before = dir
    /\ \E method \in Methods, cols \in Sizes, nbf \in Nbfs :
         \E basis_options \in OptionsOf(method) :
            call = [method |-> method, cols |-> cols, nbf |-> nbf,
                    basis_dir |-> TRUE, cached_basis |-> NoSlot,
                    basis_options |-> basis_options]
    /\ res = Idle
    /\ obs = Quiet
    /\ ncalls = 0
    /\ procs = [p \in Procs |-> Proc("start")]

NextRace ==
    \E p \in Procs :
        \/ ListDir(p)
        \/ LoadOrMiss(p)
        \/ GenerateStep(p)
        \/ SaveStep(p)

SpecRace == InitRace /\ [][NextRace]_vars

\* the same, while files may be removed from the directory
NextVanish == NextRace \/ Unlink

SpecVanish == InitRace /\ [][NextVanish]_vars

----------------------------------------------------------------------------
(* Properties of get_bs_cached *)

\* a call has been made and its outcome stands
Called == res.kind # "idle"

\* the slot of the last call is supplied, holds a matrix of enough rows and
\* names the requested method
SlotFits ==
    /\ call.cached_basis.given
    /\ call.cached_basis.has
    /\ Len(call.cached_basis.basis) >= call.cols
    /\ call.cached_basis.method = call.method

\* the last call named a supported method, had a cache directory and no
\* usable memory slot
DiskCall == Called /\ call.method \in Methods /\ call.basis_dir /\ ~SlotFits

\* the files of the method of the last call that the call found
Found == {f \in before : GlobMatch(f.name, call.method)}

\* the file f is named {method}_basis_{R}_{C}.npy for the R x C matrix it holds
PlainNamed(f) ==
    /\ Len(f.data) > 0
    /\ f.name = WithExt(MethodTokens(call.method)
                        \o <<"basis", ToString(Len(f.data)),
                             ToString(Len(f.data[1]))>>)
    /\ \A i \in 1..Len(f.data) : Len(f.data[i]) = Len(f.data[1])

\* the last call returned exactly the leading submatrix of the matrix of f
LeadingOf(f) ==
    /\ res.kind = "return"
    /\ Len(res.val) = call.cols
    /\ \A i \in 1..call.cols :
         /\ Len(res.val[i]) = call.nbf
         /\ \A j \in 1..call.nbf : res.val[i][j] = f.data[i][j]

\* C1: when the only file of the method in the directory is named
\* {method}_basis_{R}_{C} and holds an R x C matrix, a call without usable
\* slot for size <= R and numBasisFunctions <= C returns the (size,
\* numBasisFunctions) leading submatrix of that matrix, entry by entry, and the
\* generator is not invoked
C1_DiskReuseLeadingSubmatrix ==
    \A f \in Found :
        (/\ DiskCall
         /\ Found = {f}
         /\ PlainNamed(f)
         /\ call.cols <= Len(f.data)
         /\ call.nbf <= Len(f.data[1]))
        => (LeadingOf(f) /\ obs.generated = <<>>)

\* C1 happens: a linbasex file of that plain name serves a request that is
\* smaller in both dimensions
C1_Witness ==
    \E f \in Found :
        /\ DiskCall
        /\ Found = {f}
        /\ PlainNamed(f)
        /\ call.method = "linbasex"
        /\ call.cols < Len(f.data)
        /\ call.nbf < Len(f.data[1])
        /\ res.path = "disk"

\* the request a file was generated for is the request of the last call
SameRequest(f) ==
    /\ f.by.method = call.method
    /\ f.by.cols = call.cols
    /\ f.by.nbf = call.nbf
    /\ f.by.opts = call.basis_options

\* C2: after a first call that found no file of the method, generated and
\* persisted, a second call with the same parameters and directory returns the
\* first call's matrix, and the generator is not invoked again
C2_RoundTripPersistence ==
    \A f \in Found :
        (/\ DiskCall
         /\ ncalls = 2
         /\ Found = {f}
         /\ SameRequest(f))
        => (/\ res.kind = "return"
            /\ res.val = f.data
            /\ obs.generated = <<>>)

\* the option suffix a file was generated with is the suffix of the last call
SameSuffix(f) ==
    Suffix(call.method, f.by.opts) = Suffix(call.method, call.basis_options)

\* C3: once a file generated for (method, size S) is persisted, every later
\* call for that method (for linbasex, with the same option suffix) and a size
\* <= S loads a file from disk and does not invoke the generator
C3_LargerArtifactReused ==
    \A f \in before :
        (/\ DiskCall
         /\ f.by.method = call.method
         /\ SameSuffix(f)
         /\ call.cols <= f.by.cols)
        => (/\ res.path = "disk"
            /\ Len(obs.loaded) = 1
            /\ obs.generated = <<>>)

\* C4: a call never returns the truncation of a file that was persisted for
\* another method or, for linbasex, for another option suffix
C4_ArtifactIdentityRespected ==
    \A f \in before :
        (Called /\ res.path = "disk" /\ obs.loaded = <<f.name>>)
        => (f.by.method = call.method /\ SameSuffix(f))

\* C5: when every file of the method in the directory was persisted for a
\* size smaller than the requested one, the call loads none of them and
\* invokes the generator once, with the requested size
C5_InsufficientSizeMiss ==
    (/\ DiskCall
     /\ \A f \in before : f.by.method = call.method => f.by.cols < call.cols)
    => (/\ obs.loaded = <<>>
        /\ res.path = "generated"
        /\ obs.generated = <<<<call.method, call.cols, call.basis_options>>>>)

C7_UnknownMethodRejected ==
    (Called /\ call.method \notin Methods)
    => (/\ res.kind = "raise"
        /\ res.err = "ValueError"
        /\ obs = Quiet
        /\ dir = before)

\* C8: without cache directory and without usable slot, a call for a
\* supported method invokes the generator once, returns its result, lists and
\* loads nothing and writes no file
C8_MemoryOnlyMode ==
    (Called /\ call.method \in Methods /\ ~call.basis_dir /\ ~SlotFits)
    => (/\ res = Return("generated",
                        Generate(call.method, call.cols, call.basis_options))
        /\ obs.generated = <<<<call.method, call.cols, call.basis_options>>>>
        /\ ~obs.listed
        /\ obs.loaded = <<>>
        /\ obs.saved = <<>>
        /\ dir = before)

\* C8 happens: a call without directory ignores a slot of too few rows and a
\* directory that holds a sufficient file of the method, and generates
C8_Witness ==
    /\ Called
    /\ ~call.basis_dir
    /\ call.cached_basis.has
    /\ ~SlotFits
    /\ \E f \in Found : f.by.cols >= call.cols
    /\ res.path = "generated"

\* C9: every successful return, from the slot, from disk or from generation,
\* is a matrix of shape exactly (cols, nbf)
C9_ReturnedShape ==
    res.kind = "return" => Shape(res.val) = <<call.cols, call.nbf>>

\* C10: when the scan loads a file whose matrix has fewer columns than the
\* requested numBasisFunctions, the call fails and returns no matrix
C10_ColumnPreconditionFatal ==
    \A f \in before :
        (/\ Called
         /\ obs.loaded = <<f.name>>
         /\ Cols(f.data) < call.nbf)
        => res.kind = "raise"

\* the name the naming contract gives the request of the last call
ContractName ==
    WithExt(MethodTokens(call.method)
            \o <<"basis", ToString(call.cols), ToString(call.nbf)>>
            \o IF call.method = "linbasex"
               THEN <<Segment("legendre_orders", call.basis_options),
                      Segment("proj_angles", call.basis_options),
                      Segment("radial_step", call.basis_options),
                      Segment("clip", call.basis_options)>>
               ELSE <<>>)

SavedLinbasex == Called /\ call.method = "linbasex" /\ Len(obs.saved) = 1

\* the segment of a key in the name the last call saved: the pieces after
\* linbasex, basis, size and nbf; the last carries the extension
SavedSegment(key) ==
    CASE key = "legendre_orders" -> obs.saved[1][5]
      [] key = "proj_angles" -> obs.saved[1][6]
      [] key = "radial_step" -> obs.saved[1][7]
      [] key = "clip" -> obs.saved[1][8]

Absent(key) == key \notin DOMAIN call.basis_options

SavedForAngles(degs) ==
    /\ SavedLinbasex
    /\ ~Absent("proj_angles")
    /\ call.basis_options["proj_angles"] = degs

\* C13: the segment of the projection angles is the concatenation of the
\* truncations of angle*100/pi, such that the angles 0, 45, 90 and 135 degrees
\* give the segment 04590135 and the angles 0 and 90 degrees the segment 050
C13_AnglesAsStated ==
    /\ SavedForAngles(<<0, 45, 90, 135>>) => SavedSegment("proj_angles") = "04590135"
    /\ SavedForAngles(<<0, 90>>) => SavedSegment("proj_angles") = "050"

\* the size the scan reads from a listed name: the number whose decimal form
\* is the second-to-last piece
ListedSize(k) ==
    CHOOSE n \in 0..9 :
        ToString(n) = obs.listing[k][Len(obs.listing[k]) - 1]

Sufficient == {k \in 1..Len(obs.listing) : ListedSize(k) >= call.cols}

\* C14: when listed files have a parsed size >= the requested size, the call
\* loads exactly the first of them in listing order, whatever the sizes of
\* the others, skips the insufficient files before it without loading them,
\* and returns the truncation of the loaded file
C14_FirstMatchScan ==
    (DiskCall /\ Sufficient # {})
    => \E k \in Sufficient :
         /\ \A j \in Sufficient : k <= j
         /\ obs.loaded = <<obs.listing[k]>>
         /\ obs.generated = <<>>
         /\ \E f \in before :
              /\ f.name = obs.listing[k]
              /\ res = Return("disk", Trim(f.data, call.cols, call.nbf))

\* C14 happens: two sufficient files are listed, the larger one first, and
\* the larger one is loaded
C14_Witness ==
    /\ DiskCall
    /\ Len(obs.listing) = 2
    /\ Sufficient = {1, 2}
    /\ ListedSize(1) > ListedSize(2)
    /\ obs.loaded = <<obs.listing[1]>>

\* C15: once a file is written its content never changes, and a call that
\* generates creates its file under a name the directory did not hold yet
C15_ArtifactsImmutable ==
    Called =>
        /\ \A f \in before : \E g \in dir : g.name = f.name /\ g.data = f.data
        /\ \A f \in before : obs.saved # <<f.name>>

\* the file the last call loaded
Loaded(f) == res.path = "disk" /\ obs.loaded = <<f.name>>

C17_DiskHitHasRequestedRows ==
    \A f \in before :
        (Called /\ Loaded(f))
        => (Rows(f.data) >= call.cols /\ Rows(res.val) = call.cols)

\* C19: a call served from the slot or from disk, or rejected, leaves every
\* file as it was and invokes no generator; only a call that generates with a
\* cache directory changes the directory, and it changes one file name; no
\* call deletes a file
C19_HitsAndErrorsLeaveDirectory ==
    Called =>
        /\ (res.path \in {"memory", "disk"} \/ res.kind = "raise") =>
             (dir = before /\ obs.generated = <<>> /\ obs.saved = <<>>)
        /\ dir # before =>
             /\ res.path = "generated"
             /\ call.basis_dir
             /\ \E n \in {f.name : f \in dir} :
                  {f \in dir : f.name # n} = {f \in before : f.name # n}
        /\ \A f \in before : \E g \in dir : g.name = f.name

\* C19 happens: a disk hit on a directory that holds a file
C19_Witness ==
    /\ Called
    /\ res.path = "disk"
    /\ before # {}
    /\ dir = before

\* C18: a process whose chosen file is gone when it comes to load it treats
\* this as a miss: it goes on to generate and save, and ends with the
\* generated matrix instead of an error
C18_VanishedFileIsMiss ==
    \A p \in Procs :
        procs[p].lost
        => \/ procs[p].pc \in {"generating", "saving"}
           \/ procs[p].pc = "done" /\ procs[p].res.path = "generated"

\* every process has returned or raised
AllDone == \A p \in Procs : procs[p].pc = "done"

\* the size int(name.split('_')[-2]) of a file name
NameSize(name) == CHOOSE n \in 0..9 : ToString(n) = name[Len(name) - 1]

\* when the processes started, no file of the method had a sufficient size
NoSufficientAtStart ==
    \A f \in before :
        GlobMatch(f.name, call.method) => NameSize(f.name) < call.cols

\* the process p listed a file of sufficient size
ListedSufficient(p) ==
    \E k \in 1..Len(procs[p].basis_files) :
        NameSize(procs[p].basis_files[k].name) >= call.cols

\* what the generator gives for the shared request
Fresh == Generate(call.method, call.cols, call.basis_options)

\* the directory holds exactly one file under the name of the request, and it
\* holds a complete generated matrix
OneCompleteFile ==
    /\ Cardinality({f \in dir : f.name = ContractName}) = 1
    /\ \A f \in dir : f.name = ContractName => f.data = Fresh

\* C20 as stated: when no sufficient file exists at the start, under every
\* interleaving each of the two processes returns its generated matrix, and
\* the directory ends with exactly one file under the name holding a complete
\* matrix
C20_EachCallerReturnsGenerated ==
    (AllDone /\ NoSufficientAtStart)
    => /\ \A p \in Procs :
            /\ procs[p].res.kind = "return"
            /\ procs[p].res.path = "generated"
            /\ procs[p].res.val = Fresh
       /\ OneCompleteFile

\* C20 amended: a process that listed no sufficient file generates, saves and
\* returns its generated matrix; a process that listed after the other saved
\* a file the scan accepts is served that file truncated to (cols, nbf) and
\* generates nothing; under every interleaving the directory ends with
\* exactly one file under the name holding a complete generated matrix
C20_RacingWritersLastWins ==
    NoSufficientAtStart
    => /\ \A p \in Procs :
            procs[p].pc = "done"
            => /\ procs[p].res.kind = "return"
               /\ IF ListedSufficient(p)
                  THEN /\ procs[p].res.path = "disk"
                       /\ procs[p].D = <<>>
                       /\ \E k \in 1..Len(procs[p].basis_files) :
                            procs[p].basis_files[k].name = ContractName
                       /\ Len(procs[p].res.val) = call.cols
                       /\ \A i \in 1..call.cols :
                            procs[p].res.val[i]
                              = SubSeq(Fresh[i], 1,
                                       Min(call.nbf, Len(Fresh[i])))
                  ELSE /\ procs[p].res.path = "generated"
                       /\ procs[p].res.val = Fresh
       /\ AllDone => OneCompleteFile

\* C20 happens: both processes missed, generated and wrote the same name
C20_Witness ==
    /\ AllDone
    /\ NoSufficientAtStart
    /\ \A p \in Procs : procs[p].res.path = "generated"
    /\ OneCompleteFile

====
